---- MODULE Spec2Model ----
(***************************************************************************)
(* Model of the real-time audio segmentation and interruption engine of    *)
(* live_talker: audio/vad.py (VADDetector, InterruptionDetector) and       *)
(* audio/recorder.py (RealtimeRecorder), wired as core/talker.py does to    *)
(* its callbacks and to audio/player.py (AudioPlayer).                     *)
(*                                                                         *)
(* Time is the value of time.time() in milliseconds.  A timestamp field    *)
(* that holds None in the code holds NoTime here.                          *)
(***************************************************************************)
EXTENDS Integers, Sequences, FiniteSets, TLC

\* ------------------------------------------------------------------------
\* Program constants
\* ------------------------------------------------------------------------
min_speech_duration == 250

min_silence_duration == 500

interruption_threshold == 300

sample_rate == 16000

chunk_size == 1024

\* duration of one captured chunk: chunk_size samples at sample_rate
ChunkMs == (1000 * chunk_size) \div sample_rate

\* None for a timestamp
NoTime == -1

\* ------------------------------------------------------------------------
\* Bounds of the model
\* ------------------------------------------------------------------------
\* the clock stops advancing here
MaxTime == 1100

\* granularity of the clock in the tracker and detector specifications
ClockStep == 50

\* number of chunks the capture driver delivers
MaxChunks == 21

\* backlog of captured chunks the processing loop is allowed to build up
MaxQueue == 1

\* backlog that builds up while the processing thread is blocked inside
\* on_utterance_complete
MaxBlockedQueue == 6

\* number of processing threads RealtimeRecorder.start creates
MaxThreads == 2

\* number of silent chunks that may precede the loud chunks of the scenario
MaxLead == 4

\* time up to which the tracker and the detector are driven together
MaxFrameTime == 500

\* number of utterances handed to LiveTalker._on_utterance_complete
MaxCalls == 6

\* number of calls of TalkerThread.interrupt from the GUI thread
MaxGuiInterrupts == 2

\* number of chunks of the audio handed to the blocking playback
MaxAudio == 3

\* number of buffers handed to the background playback
MaxBuffers == 3

Threads == 1 .. MaxThreads

VARIABLES
    now,                 \* time.time()
    is_speaking,         \* VADDetector.is_speaking
    speech_start_time,   \* VADDetector.speech_start_time
    silence_start_time,  \* VADDetector.silence_start_time
    vad_ret,             \* observer: the last update_state call and its result
    pos_run,             \* observer: current/last run of positive calls
    neg_run,             \* observer: current/last run of negative calls
    n_started,           \* observer: number of speech_started reported
    n_ended,             \* observer: number of speech_ended reported
    audio_queue,         \* RealtimeRecorder.audio_queue
    current_utterance,   \* RealtimeRecorder.current_utterance
    pre_speech_buffer,   \* RealtimeRecorder.pre_speech_buffer
    is_recording,        \* RealtimeRecorder.is_recording
    is_system_speaking,  \* RealtimeRecorder.is_system_speaking
    stream_active,       \* the capture stream RealtimeRecorder._stream is running
    welcome,             \* where LiveTalker._play_welcome_message stands
    n_captured,          \* number of chunks the capture driver has delivered
    proc,                \* where each thread running _process_audio stands
    stop_event,          \* AudioPlayer._stop_event
    scn,                 \* the scripted capture stream: silent lead, position
    segment,             \* observer: the last speech_started/speech_ended/reset
    played_over,         \* observer: scripted chunks enqueued during a playback
    rec_step,            \* observer: what the last iteration of the loop did
    loud_run,            \* observer: time the current run of loud chunks began
    preroll_hist,        \* observer: chunks put in the pre-roll since its last clear
    onset_prec,          \* observer: chunks that preceded the last onset chunk
    utt_emitted,         \* observer: payload of the last on_utterance_complete
    n_utterances,        \* observer: number of on_utterance_complete calls
    n_interrupts,        \* observer: number of on_interrupt calls
    det_is_system_speaking, \* InterruptionDetector.is_system_speaking
    interrupt_start_time,   \* InterruptionDetector.interrupt_start_time
    det_ret,             \* observer: the last check_interruption call
    det_run,             \* observer: current run of positive checks
    det_cleared_at,      \* observer: time of the last set_system_speaking(False)
    method,              \* VADDetector.method
    has_model,           \* VADDetector._has_silero / _has_webrtc: a model is loaded
    detect_ret,          \* observer: the last detect call and its result
    model_failed,        \* observer: an inference of the model has raised
    stopped_at,          \* observer: chunks captured when stop() was last called
    written,             \* chunks _play_sync has written to the output stream
    late_written,        \* observer: of these, the chunks written after a stop()
    player_queue,        \* AudioPlayer._audio_queue
    play_thread,         \* where AudioPlayer._play_thread stands, and its buffer
    n_buffers,           \* number of play_bytes(blocking=False) calls
    played,              \* observer: buffers the playback worker has taken
    local                \* audio_chunk and state of a thread handling a chunk

vadVars == <<is_speaking, speech_start_time, silence_start_time>>

vadObs == <<vad_ret, pos_run, neg_run, n_started, n_ended, segment>>

recVars == <<audio_queue, current_utterance, pre_speech_buffer, is_recording,
             is_system_speaking, stream_active, n_captured, welcome, proc,
             stop_event, scn>>

recObs == <<rec_step, loud_run, preroll_hist, onset_prec, utt_emitted,
            n_utterances, n_interrupts, played_over>>

detVars == <<det_is_system_speaking, interrupt_start_time>>

detObs == <<det_ret, det_run, det_cleared_at>>

clsVars == <<method, has_model, detect_ret, model_failed>>

\* the player: the blocking playback and the background worker
plVars == <<written, late_written, player_queue, play_thread, n_buffers,
            played>>

vars == <<now, vadVars, vadObs, recVars, recObs, detVars, detObs, clsVars, plVars, local,
          stopped_at>>

\* ------------------------------------------------------------------------
\* VADDetector.update_state
\* ------------------------------------------------------------------------
SpeechLongEnough_CountsFirstChunk(t, start) ==
    t - start + ChunkMs >= min_speech_duration

\* vad.py:246
SpeechLongEnough(t, start) == t - start >= min_speech_duration

\* vad.py:264
SilenceLongEnough(t, start) == t - start >= min_silence_duration

UpdateSpeech_NoSilentCheck(t, trk) ==
    LET starts == /\ trk.speech_start_time # NoTime
                  /\ SpeechLongEnough(t, trk.speech_start_time)
    IN [is_speaking        |-> IF starts THEN TRUE ELSE trk.is_speaking,
        speech_start_time  |-> IF trk.speech_start_time = NoTime
                               THEN t ELSE trk.speech_start_time,
        silence_start_time |-> NoTime,
        speech_started     |-> starts,
        speech_ended       |-> FALSE,
        ret_is_speaking    |-> IF starts THEN TRUE ELSE trk.is_speaking]

UpdateSpeech_KeepsSilenceTimer(t, trk) ==
    LET starts == /\ ~trk.is_speaking
                  /\ trk.speech_start_time # NoTime
                  /\ SpeechLongEnough(t, trk.speech_start_time)
    IN [is_speaking        |-> IF starts THEN TRUE ELSE trk.is_speaking,
        speech_start_time  |-> IF ~trk.is_speaking /\ trk.speech_start_time = NoTime
                               THEN t ELSE trk.speech_start_time,
        silence_start_time |-> trk.silence_start_time,
        speech_started     |-> starts,
        speech_ended       |-> FALSE,
        ret_is_speaking    |-> IF starts THEN TRUE ELSE trk.is_speaking]

\* the positive branch, vad.py:239-255
UpdateSpeech(t, trk) ==
    LET starts == /\ ~trk.is_speaking
                  /\ trk.speech_start_time # NoTime
                  /\ SpeechLongEnough(t, trk.speech_start_time)
    IN [is_speaking        |-> IF starts THEN TRUE ELSE trk.is_speaking,
        speech_start_time  |-> IF ~trk.is_speaking /\ trk.speech_start_time = NoTime
                               THEN t ELSE trk.speech_start_time,
        silence_start_time |-> NoTime,
        speech_started     |-> starts,
        speech_ended       |-> FALSE,
        ret_is_speaking    |-> IF starts THEN TRUE ELSE trk.is_speaking]

UpdateSilence_KeepsSpeechTimer(t, trk) ==
    LET ends == /\ trk.is_speaking
                /\ trk.silence_start_time # NoTime
                /\ SilenceLongEnough(t, trk.silence_start_time)
    IN [is_speaking        |-> IF ends THEN FALSE ELSE trk.is_speaking,
        speech_start_time  |-> trk.speech_start_time,
        silence_start_time |-> IF trk.is_speaking /\ trk.silence_start_time = NoTime
                               THEN t ELSE trk.silence_start_time,
        speech_started     |-> FALSE,
        speech_ended       |-> ends,
        ret_is_speaking    |-> IF ends THEN FALSE ELSE trk.is_speaking]

\* the negative branch, vad.py:257-273
UpdateSilence(t, trk) ==
    LET ends == /\ trk.is_speaking
                /\ trk.silence_start_time # NoTime
                /\ SilenceLongEnough(t, trk.silence_start_time)
    IN [is_speaking        |-> IF ends THEN FALSE ELSE trk.is_speaking,
        speech_start_time  |-> NoTime,
        silence_start_time |-> IF trk.is_speaking /\ trk.silence_start_time = NoTime
                               THEN t ELSE trk.silence_start_time,
        speech_started     |-> FALSE,
        speech_ended       |-> ends,
        ret_is_speaking    |-> IF ends THEN FALSE ELSE trk.is_speaking]

\* the tracker's three fields as a record
Tracker == [is_speaking        |-> is_speaking,
            speech_start_time  |-> speech_start_time,
            silence_start_time |-> silence_start_time]

\* update_state(has_speech) at time t on tracker trk: new fields and the
\* returned state dict
update_state(has_speech, t, trk) ==
    IF has_speech THEN UpdateSpeech(t, trk) ELSE UpdateSilence(t, trk)

\* ------------------------------------------------------------------------
\* Observers of the sequence of update_state calls
\* ------------------------------------------------------------------------
NoRun == [state |-> "none", first |-> NoTime, last |-> NoTime,
          from |-> FALSE, fired |-> FALSE]

\* the run of calls with has_speech = TRUE after one more call
PosRunAfter(has_speech, t, r) ==
    IF has_speech
    THEN IF pos_run.state = "open"
         THEN [pos_run EXCEPT !.last = t, !.fired = @ \/ r.speech_started]
         ELSE [state |-> "open", first |-> t, last |-> t,
               from |-> ~is_speaking, fired |-> r.speech_started]
    ELSE IF pos_run.state = "open"
         THEN [pos_run EXCEPT !.state = "closed"]
         ELSE pos_run

\* the run of calls with has_speech = FALSE after one more call
NegRunAfter(has_speech, t, r) ==
    IF ~has_speech
    THEN IF neg_run.state = "open"
         THEN [neg_run EXCEPT !.last = t, !.fired = @ \/ r.speech_ended]
         ELSE [state |-> "open", first |-> t, last |-> t,
               from |-> is_speaking, fired |-> r.speech_ended]
    ELSE IF neg_run.state = "open"
         THEN [neg_run EXCEPT !.state = "closed"]
         ELSE neg_run

NoCall == [called |-> FALSE, has_speech |-> FALSE, at |-> NoTime,
           speech_started |-> FALSE, speech_ended |-> FALSE,
           is_speaking |-> FALSE]

\* one call of update_state on the tracker: the fields it assigns, and the
\* observers of its result
TrackerStep_ReturnsEntryState(has_speech) ==
    LET r == update_state(has_speech, now, Tracker)
    IN /\ is_speaking' = r.is_speaking
       /\ speech_start_time' = r.speech_start_time
       /\ silence_start_time' = r.silence_start_time
       /\ vad_ret' = [called |-> TRUE, has_speech |-> has_speech, at |-> now,
                      speech_started |-> r.speech_started,
                      speech_ended |-> r.speech_ended,
                      is_speaking |-> is_speaking]
       /\ n_started' = n_started + (IF r.speech_started THEN 1 ELSE 0)
       /\ n_ended' = n_ended + (IF r.speech_ended THEN 1 ELSE 0)
       /\ segment' = IF r.speech_started THEN "open"
                     ELSE IF r.speech_ended THEN "closed" ELSE segment

TrackerStep(has_speech) ==
    LET r == update_state(has_speech, now, Tracker)
    IN /\ is_speaking' = r.is_speaking
       /\ speech_start_time' = r.speech_start_time
       /\ silence_start_time' = r.silence_start_time
       /\ vad_ret' = [called |-> TRUE, has_speech |-> has_speech, at |-> now,
                      speech_started |-> r.speech_started,
                      speech_ended |-> r.speech_ended,
                      is_speaking |-> r.ret_is_speaking]
       /\ n_started' = n_started + (IF r.speech_started THEN 1 ELSE 0)
       /\ n_ended' = n_ended + (IF r.speech_ended THEN 1 ELSE 0)
       /\ segment' = IF r.speech_started THEN "open"
                     ELSE IF r.speech_ended THEN "closed" ELSE segment

ResetTracker_KeepsSpeaking ==
    /\ is_speaking' = is_speaking
    /\ speech_start_time' = NoTime
    /\ silence_start_time' = NoTime
    /\ segment' = IF segment = "open" THEN "dropped" ELSE segment

\* VADDetector.reset, vad.py:277-282.  The observer records that a segment
\* whose speech_started was reported was dropped without a speech_ended.
ResetTracker ==
    /\ is_speaking' = FALSE
    /\ speech_start_time' = NoTime
    /\ silence_start_time' = NoTime
    /\ segment' = IF segment = "open" THEN "dropped" ELSE segment

reset_KeepsSilenceTimer(tr) ==
    [is_speaking |-> FALSE, speech_start_time |-> NoTime,
     silence_start_time |-> IF tr.is_speaking
                            THEN tr.silence_start_time ELSE NoTime]

\* VADDetector.reset as a function of the tracker's fields, vad.py:277-282
reset(tr) ==
    [is_speaking |-> FALSE, speech_start_time |-> NoTime,
     silence_start_time |-> NoTime]

\* ------------------------------------------------------------------------
\* RealtimeRecorder
\* A captured chunk is [id, loud]: its index in the captured stream and
\* whether its samples are speech for the classifier.  The buffers hold the
\* chunks by their index.
\* ------------------------------------------------------------------------
Max(a, b) == IF a >= b THEN a ELSE b

Min(a, b) == IF a <= b THEN a ELSE b

\* recorder.py:55
pre_speech_buffer_size == Max(20, sample_rate \div chunk_size)

\* VADDetector.detect: the verdict is a function of the chunk's samples
detect(chunk) == chunk.loud

EvictOldest_Never(buf) == buf

\* recorder.py:176-177
EvictOldest(buf) ==
    IF Len(buf) > pre_speech_buffer_size THEN Tail(buf) ELSE buf

\* recorder.py:175-177
MaintainPreRoll(buf, c) == EvictOldest(Append(buf, c))

Collect_KeepsEndChunk(state, utt, pre, c) ==
    IF state.ret_is_speaking \/ state.speech_started \/ state.speech_ended
    THEN IF state.speech_started /\ pre # <<>>
         THEN [utt |-> Append(utt \o pre, c), pre |-> <<>>]
         ELSE [utt |-> Append(utt, c), pre |-> pre]
    ELSE [utt |-> utt, pre |-> pre]

Collect_Always(state, utt, pre, c) ==
    IF state.speech_started /\ pre # <<>>
    THEN [utt |-> Append(utt \o pre, c), pre |-> <<>>]
    ELSE [utt |-> Append(utt, c), pre |-> pre]

\* recorder.py:179-187: the utterance and pre-roll buffers after the chunk
\* has been collected
Collect(state, utt, pre, c) ==
    IF state.ret_is_speaking \/ state.speech_started
    THEN IF state.speech_started /\ pre # <<>>
         THEN [utt |-> Append(utt \o pre, c), pre |-> <<>>]
         ELSE [utt |-> Append(utt, c), pre |-> pre]
    ELSE [utt |-> utt, pre |-> pre]

EmitsUtterance_NoEndCheck(state, utt) == utt # <<>>

\* recorder.py:189
EmitsUtterance(state, utt) == state.speech_ended /\ utt # <<>>

\* recorder.py:157-159
InterruptCheck(flag, has_speech) == flag /\ has_speech

ResetAfterEmit_KeepsPreRoll(emits, col) ==
    IF emits THEN [utt |-> <<>>, pre |-> col.pre] ELSE col

\* recorder.py:210-212: the buffers after the emission branch
ResetAfterEmit(emits, col) ==
    IF emits THEN [utt |-> <<>>, pre |-> <<>>] ELSE col

\* how a call of on_utterance_complete ends: LiveTalker._on_utterance_complete
\* returns before any playback (talker.py:257-308), or plays the reply
\* (talker.py:316-323); a consumer that raises is caught at recorder.py:207
Outcomes == {"quiet", "raised", "played"}

\* how a call of on_interrupt ends: LiveTalker._on_interrupt returns
\* (talker.py:384-401), or the callback raises before it has done anything
InterruptOutcomes == {"quiet", "interrupt_raised"}

ThreadAfter_RaiseKills(outcome) ==
    IF outcome = "played" THEN "reply"
    ELSE IF outcome \in {"raised", "interrupt_raised"} THEN "exited"
    ELSE "loop"

\* where the processing thread stands after a callback: blocked in the
\* playback of the reply, or back in the loop, also after a callback that
\* raised (recorder.py:207-208 and 216-217 catch inside the while loop)
ThreadAfter(outcome) == IF outcome = "played" THEN "reply" ELSE "loop"

\* LiveTalker.is_processing (talker.py:236-241, 343): a thread is inside
\* _on_utterance_complete
is_processing == \E u \in Threads : proc[u] = "reply"

NoStep == [kind |-> "none", chunk |-> 0, at |-> NoTime, flag |-> FALSE,
           interrupted |-> FALSE, emitted |-> FALSE, ended |-> FALSE,
           cb |-> "none", thread |-> 0, boundary |-> 0]

clear_buffer_KeepsPreRoll ==
    /\ current_utterance' = <<>>
    /\ pre_speech_buffer' = pre_speech_buffer
    /\ ResetTracker

\* RealtimeRecorder.clear_buffer, recorder.py:231-236
clear_buffer ==
    /\ current_utterance' = <<>>
    /\ pre_speech_buffer' = <<>>
    /\ ResetTracker

\* recorder.py:160-168 with on_interrupt = LiveTalker._on_interrupt
\* (talker.py:384-401): AudioPlayer.stop sets the stop event
\* (player.py:239-241), the flag is cleared, clear_buffer() empties both
\* buffers and resets the tracker, and the chunk is dropped.  When the
\* callback raises, line 167 is skipped and the exception is caught at
\* line 216: the chunk is dropped and nothing else changes.
InterruptPath(t, chunk, outcome) ==
    /\ IF outcome = "interrupt_raised"
       THEN /\ UNCHANGED <<stop_event, is_system_speaking,
                           current_utterance, pre_speech_buffer, vadVars,
                           segment, preroll_hist>>
       ELSE /\ stop_event' = TRUE
            /\ is_system_speaking' = FALSE
            /\ clear_buffer
            /\ preroll_hist' = <<>>
    /\ n_interrupts' = n_interrupts + 1
    /\ proc' = [proc EXCEPT ![t] = ThreadAfter(outcome)]
    /\ rec_step' = [kind |-> "interrupt", chunk |-> chunk.id, at |-> now,
                    flag |-> is_system_speaking,
                    interrupted |-> TRUE, emitted |-> FALSE, ended |-> FALSE,
                    cb |-> IF outcome = "interrupt_raised"
                           THEN outcome ELSE "none",
                    thread |-> t, boundary |-> stopped_at]
    /\ UNCHANGED <<vad_ret, n_started, n_ended, onset_prec, utt_emitted,
                   n_utterances>>

\* recorder.py:170-212 with on_utterance_complete =
\* LiveTalker._on_utterance_complete (talker.py:229-343).  A call that ends
\* without playback returns to the loop, which resets the buffers.  A call
\* that plays the reply sets the flag (talker.py:317-318) and blocks the
\* thread in AudioPlayer._play_sync, which clears the stop event
\* (player.py:115); the buffers are reset when it returns (ReplyEnd).  A
\* call made while another is in progress returns at once (talker.py:236).
NormalPath(t, chunk, has_speech, outcome) ==
    LET r     == update_state(has_speech, now, Tracker)
        pre1  == MaintainPreRoll(pre_speech_buffer, chunk.id)
        col   == Collect(r, current_utterance, pre1, chunk.id)
        emits == EmitsUtterance(r, col.utt)
        plays == emits /\ outcome = "played"
        after == ResetAfterEmit(emits /\ ~plays, col)
    IN /\ outcome \in Outcomes
       /\ emits => (outcome = "played" => ~is_processing)
       /\ ~emits => outcome = "quiet"
       /\ TrackerStep(has_speech)
       /\ current_utterance' = after.utt
       /\ pre_speech_buffer' = after.pre
       /\ is_system_speaking' = IF plays THEN TRUE ELSE is_system_speaking
       /\ stop_event' = IF plays THEN FALSE ELSE stop_event
       /\ proc' = IF emits THEN [proc EXCEPT ![t] = ThreadAfter(outcome)]
                  ELSE proc
       /\ utt_emitted' = IF emits THEN col.utt ELSE utt_emitted
       /\ n_utterances' = n_utterances + (IF emits THEN 1 ELSE 0)
       /\ preroll_hist' = IF (emits /\ ~plays) \/ r.speech_started
                          THEN <<>> ELSE Append(preroll_hist, chunk.id)
       /\ onset_prec' = IF r.speech_started THEN preroll_hist ELSE onset_prec
       /\ rec_step' = [kind |-> "normal", chunk |-> chunk.id, at |-> now,
                       flag |-> is_system_speaking,
                       interrupted |-> FALSE, emitted |-> emits,
                       ended |-> r.speech_ended,
                       cb |-> IF emits THEN outcome ELSE "none", thread |-> t,
                       boundary |-> stopped_at]
       /\ UNCHANGED n_interrupts

\* ------------------------------------------------------------------------
\* InterruptionDetector
\* ------------------------------------------------------------------------
TimerAfterSet_Keeps(b, timer) == timer

\* vad.py:319-320
TimerAfterSet(b, timer) == IF ~b THEN NoTime ELSE timer

\* vad.py:343
InterruptLongEnough(t, start) == t - start >= interruption_threshold

\* check_interruption on a chunk classified has_speech, at time t, vad.py:322-355:
\* the timer afterwards and whether on_interrupt was called (the value returned)
check_interruption(flag, has_speech, t, timer) ==
    IF ~flag
    THEN [timer |-> timer, fired |-> FALSE]
    ELSE IF has_speech
         THEN IF timer = NoTime
              THEN [timer |-> t, fired |-> FALSE]
              ELSE IF InterruptLongEnough(t, timer)
                   THEN [timer |-> NoTime, fired |-> TRUE]
                   ELSE [timer |-> timer, fired |-> FALSE]
         ELSE [timer |-> NoTime, fired |-> FALSE]

NoDetCall == [called |-> FALSE, has_speech |-> FALSE, at |-> NoTime,
              flag |-> FALSE, since |-> NoTime, cleared |-> NoTime,
              fired |-> FALSE]

NoDetRun == [first |-> NoTime, last |-> NoTime, fires |-> 0]

\* the run of positive checks made while the flag stayed true, after one
\* more check
DetRunAfter(has_speech, t, r) ==
    IF ~det_is_system_speaking
    THEN det_run
    ELSE IF has_speech
         THEN IF det_run.first = NoTime
              THEN [first |-> t, last |-> t, fires |-> IF r.fired THEN 1 ELSE 0]
              ELSE [det_run EXCEPT !.last = t,
                                   !.fires = @ + (IF r.fired THEN 1 ELSE 0)]
         ELSE NoDetRun

\* ------------------------------------------------------------------------
\* VADDetector.detect
\* The samples of a chunk are abstracted to what the classifiers make of
\* them: whether the chunk is empty, the verdict of the energy classifier,
\* and what the model (Silero or WebRTC) does with it: it finds speech,
\* finds none, or raises.
\* ------------------------------------------------------------------------
Methods == {"silero", "webrtc", "energy"}

Datas == [empty : BOOLEAN, energy : BOOLEAN,
          model : {"speech", "silence", "error"}]

\* VADDetector._init_vad, vad.py:78-111
init_vad(m, loads) ==
    IF m \in {"silero", "webrtc"}
    THEN [method |-> IF loads THEN m ELSE "energy", has_model |-> loads]
    ELSE [method |-> m, has_model |-> FALSE]

\* VADDetector._detect_energy, vad.py:205-220
detect_energy(data) ==
    [result |-> data.energy, invoked |-> FALSE, failed |-> FALSE]

\* VADDetector._detect_silero, vad.py:136-177, and _detect_webrtc,
\* vad.py:179-203: without a model, or when the inference raises, the
\* verdict is that of the energy classifier
detect_model(loaded, data) ==
    IF ~loaded
    THEN detect_energy(data)
    ELSE IF data.model = "error"
         THEN [detect_energy(data) EXCEPT !.invoked = TRUE, !.failed = TRUE]
         ELSE [result |-> data.model = "speech", invoked |-> TRUE,
               failed |-> FALSE]

VADDetect_NoEmptyCheck(m, loaded, data) ==
    IF m \in {"silero", "webrtc"}
    THEN detect_model(loaded, data)
    ELSE detect_energy(data)

\* VADDetector.detect, vad.py:113-134: the verdict, whether the model was
\* invoked and whether it raised
VADDetect(m, loaded, data) ==
    IF data.empty
    THEN [result |-> FALSE, invoked |-> FALSE, failed |-> FALSE]
    ELSE IF m \in {"silero", "webrtc"}
         THEN detect_model(loaded, data)
         ELSE detect_energy(data)

NoDetect == [called |-> FALSE, empty |-> FALSE, energy |-> FALSE,
             result |-> FALSE, invoked |-> FALSE, failed |-> FALSE,
             failed_before |-> FALSE,
             as_negative |-> <<FALSE, NoTime, NoTime>>]

\* ------------------------------------------------------------------------
\* Actions
\* ------------------------------------------------------------------------
\* InterruptionDetector.set_system_speaking, vad.py:311-320
DetSetSystemSpeaking(b) ==
    /\ det_is_system_speaking' = b
    /\ interrupt_start_time' = TimerAfterSet(b, interrupt_start_time)
    /\ det_cleared_at' = IF ~b THEN now ELSE det_cleared_at
    /\ det_run' = IF ~b THEN NoDetRun ELSE det_run
    /\ UNCHANGED <<now, vadVars, vadObs, recVars, recObs, det_ret, clsVars, plVars, local,
                   stopped_at>>

CheckInterruption_FeedsTracker(has_speech) ==
    LET r == check_interruption(det_is_system_speaking, has_speech, now,
                                interrupt_start_time)
    IN /\ interrupt_start_time' = r.timer
       /\ det_ret' = [called |-> TRUE, has_speech |-> has_speech, at |-> now,
                      flag |-> det_is_system_speaking,
                      since |-> interrupt_start_time,
                      cleared |-> det_cleared_at, fired |-> r.fired]
       /\ det_run' = DetRunAfter(has_speech, now, r)
       /\ TrackerStep(has_speech)
       /\ UNCHANGED <<now, pos_run, neg_run, recVars, recObs,
                      det_is_system_speaking, det_cleared_at, clsVars, plVars,
                      local, stopped_at>>

\* InterruptionDetector.check_interruption on one chunk, vad.py:322-355
CheckInterruption(has_speech) ==
    LET r == check_interruption(det_is_system_speaking, has_speech, now,
                                interrupt_start_time)
    IN /\ interrupt_start_time' = r.timer
       /\ det_ret' = [called |-> TRUE, has_speech |-> has_speech, at |-> now,
                      flag |-> det_is_system_speaking,
                      since |-> interrupt_start_time,
                      cleared |-> det_cleared_at, fired |-> r.fired]
       /\ det_run' = DetRunAfter(has_speech, now, r)
       /\ UNCHANGED <<now, vadVars, vadObs, recVars, recObs,
                      det_is_system_speaking, det_cleared_at, clsVars, plVars, local,
                      stopped_at>>

\* time passes
Tick(d) ==
    /\ now + d <= MaxTime
    /\ now' = now + d
    /\ UNCHANGED <<vadVars, vadObs, recVars, recObs, detVars, detObs,
                   clsVars, plVars, local, stopped_at>>

\* a caller invokes VADDetector.update_state(has_speech)
UpdateStateCall(has_speech) ==
    /\ TrackerStep(has_speech)
    /\ pos_run' = PosRunAfter(has_speech, now, update_state(has_speech, now, Tracker))
    /\ neg_run' = NegRunAfter(has_speech, now, update_state(has_speech, now, Tracker))
    /\ UNCHANGED <<now, recVars, recObs, detVars, detObs,
                   clsVars, plVars, local, stopped_at>>

\* the recorder classifies a chunk and updates the tracker with the
\* verdict, recorder.py:171-172; detect leaves the method and the model as
\* they are.  The observer keeps what a negative decision would have made
\* of the tracker.
ClassifyCall(data) ==
    LET d   == VADDetect(method, has_model, data)
        neg == update_state(FALSE, now, Tracker)
    IN /\ TrackerStep(d.result)
       /\ detect_ret' = [called |-> TRUE, empty |-> data.empty,
                         energy |-> data.energy, result |-> d.result,
                         invoked |-> d.invoked, failed |-> d.failed,
                         failed_before |-> model_failed,
                         as_negative |-> <<neg.is_speaking,
                                           neg.speech_start_time,
                                           neg.silence_start_time>>]
       /\ model_failed' = (model_failed \/ d.failed)
       /\ UNCHANGED <<now, pos_run, neg_run, method, has_model, recVars,
                      recObs, detVars, detObs, stopped_at, plVars, local>>

\* a caller invokes VADDetector.reset(), vad.py:277-282
ResetCall ==
    /\ ResetTracker
    /\ pos_run' = NoRun
    /\ neg_run' = NoRun
    /\ UNCHANGED <<now, vad_ret, n_started, n_ended, recVars, recObs,
                   detVars, detObs,
                   clsVars, plVars, local, stopped_at>>

\* a caller invokes RealtimeRecorder.clear_buffer(), recorder.py:231-236
ClearBufferCall ==
    /\ clear_buffer
    /\ preroll_hist' = <<>>
    /\ pos_run' = NoRun
    /\ neg_run' = NoRun
    /\ UNCHANGED <<now, vad_ret, n_started, n_ended, audio_queue,
                   is_recording, is_system_speaking, stream_active,
                   n_captured, welcome, proc, stop_event, scn, rec_step,
                   loud_run, onset_prec, utt_emitted, n_utterances,
                   n_interrupts, played_over, detVars, detObs,
                   clsVars, plVars, local, stopped_at>>

\* the thread a call of start() creates
NewThread == CHOOSE t \in Threads :
                 proc[t] = "none" /\ \A u \in Threads : proc[u] = "none" => t <= u

\* RealtimeRecorder.start, recorder.py:73-110, with PyAudio available: a
\* call while recording returns at once; otherwise it opens the capture
\* stream and starts a new processing thread
Start ==
    /\ ~is_recording
    /\ \E t \in Threads : proc[t] = "none"
    /\ is_recording' = TRUE
    /\ stream_active' = TRUE
    /\ proc' = [proc EXCEPT ![NewThread] = "loop"]
    /\ UNCHANGED <<now, vadVars, vadObs, audio_queue, current_utterance,
                   pre_speech_buffer, is_system_speaking, n_captured, welcome,
                   stop_event, scn, recObs, detVars, detObs,
                   clsVars, plVars, local, stopped_at>>

Stop_NoJoin ==
    /\ is_recording
    /\ is_recording' = FALSE
    /\ stream_active' = FALSE
    /\ proc' = proc
    /\ stopped_at' = n_captured
    /\ UNCHANGED <<now, vadVars, vadObs, audio_queue, current_utterance,
                   pre_speech_buffer, is_system_speaking, n_captured, welcome,
                   stop_event, scn, recObs, detVars, detObs, clsVars, plVars, local>>

\* RealtimeRecorder.stop, recorder.py:112-138: the flag is cleared, the
\* stream is closed and the processing thread is joined for at most 2 s.  A
\* thread waiting on the queue sees the flag within its 0.1 s timeout and
\* ends; a thread blocked inside on_utterance_complete outlives the join.
\* Neither the queue nor the buffers nor the tracker are touched.
Stop ==
    /\ is_recording
    /\ is_recording' = FALSE
    /\ stream_active' = FALSE
    /\ proc' = [t \in Threads |-> IF proc[t] = "loop" THEN "exited" ELSE proc[t]]
    /\ stopped_at' = n_captured
    /\ UNCHANGED <<now, vadVars, vadObs, audio_queue, current_utterance,
                   pre_speech_buffer, is_system_speaking, n_captured, welcome,
                   stop_event, scn, recObs, detVars, detObs, clsVars, plVars, local>>

\* a playback is in progress: the welcome message (talker.py:370) or a reply
\* (talker.py:319)
Playing == welcome = "playing" \/ is_processing

\* the backlog the queue may hold: unbounded in the code (recorder.py:52);
\* here a running loop keeps up with the capture, a blocked one does not
QueueBound == IF is_processing THEN MaxBlockedQueue ELSE MaxQueue

\* RealtimeRecorder._audio_callback, recorder.py:140-145: the capture driver
\* delivers one chunk per chunk period, so the clock has advanced by ChunkMs
\* at each call
Capture(loud) ==
    /\ stream_active
    /\ n_captured < MaxChunks
    /\ Len(audio_queue) < QueueBound
    /\ now' = now + ChunkMs
    /\ n_captured' = n_captured + 1
    /\ audio_queue' = IF is_recording
                      THEN Append(audio_queue, [id |-> n_captured + 1, loud |-> loud])
                      ELSE audio_queue
    /\ UNCHANGED <<vadVars, vadObs, current_utterance, pre_speech_buffer,
                   is_recording, stream_active, is_system_speaking, welcome,
                   proc, stop_event, rec_step, loud_run, preroll_hist,
                   onset_prec, utt_emitted, n_utterances, n_interrupts,
                   detVars, detObs,
                   clsVars, plVars, local, stopped_at>>

\* the capture callback on an arbitrary chunk
AudioCallback(loud) == Capture(loud) /\ UNCHANGED <<scn, played_over>>

\* the scripted stream: up to MaxLead silent chunks, then 5 loud chunks,
\* 9 silent chunks and 3 loud chunks; k is the position after the lead
ScenarioLoud(k) == k \in 1 .. 5 \/ k \in 15 .. 17

ScenarioChunks == 1 .. 17

\* the capture callback on the next chunk of the scripted stream; the
\* observer records the chunks enqueued while a playback is in progress
ScenarioCallback(loud) ==
    /\ IF scn.pos = 0
       THEN ~loud => scn.lead < MaxLead
       ELSE scn.pos + 1 \in ScenarioChunks /\ loud = ScenarioLoud(scn.pos + 1)
    /\ Capture(loud)
    /\ scn' = IF scn.pos = 0 /\ ~loud
              THEN [scn EXCEPT !.lead = @ + 1]
              ELSE [scn EXCEPT !.pos = @ + 1]
    /\ played_over' = IF is_recording /\ Playing
                      THEN played_over \cup {n_captured + 1} ELSE played_over

\* one iteration of the loop of RealtimeRecorder._process_audio, run by
\* thread t, that dequeued a chunk, recorder.py:151-212 (detect is called at
\* line 158 and again at line 171, with the same verdict for the same chunk)
ProcessChunk(t, outcome) ==
    /\ proc[t] = "loop"
    /\ is_recording
    /\ audio_queue # <<>>
    /\ LET chunk == Head(audio_queue)
           has_speech == detect(chunk)
       IN /\ audio_queue' = Tail(audio_queue)
          /\ loud_run' = IF has_speech
                         THEN (IF loud_run = NoTime THEN now ELSE loud_run)
                         ELSE NoTime
          /\ IF InterruptCheck(is_system_speaking, has_speech)
             THEN outcome \in InterruptOutcomes /\ InterruptPath(t, chunk, outcome)
             ELSE NormalPath(t, chunk, has_speech, outcome)
    /\ UNCHANGED <<now, pos_run, neg_run, is_recording, stream_active,
                   n_captured, welcome, scn, played_over, detVars, detObs,
                   clsVars, plVars, local, stopped_at>>

\* the blocking playback of the reply returns in thread t, played to the end
\* or stopped: talker.py:322-323 clears the flag, recorder.py:211-212 resets
\* the buffers, and the loop tests is_recording again (recorder.py:149)
ReplyEnd(t) ==
    /\ proc[t] = "reply"
    /\ is_system_speaking' = FALSE
    /\ current_utterance' = <<>>
    /\ pre_speech_buffer' = <<>>
    /\ preroll_hist' = <<>>
    /\ proc' = [proc EXCEPT ![t] = IF is_recording THEN "loop" ELSE "exited"]
    /\ UNCHANGED <<now, vadVars, vadObs, audio_queue, is_recording,
                   stream_active, n_captured, welcome, stop_event, scn,
                   rec_step, loud_run, onset_prec, utt_emitted, n_utterances,
                   n_interrupts, played_over, detVars, detObs,
                   clsVars, plVars, local, stopped_at>>

\* LiveTalker._play_welcome_message up to the blocking playback,
\* talker.py:345-370: once the recorder runs, the controller thread sets
\* the flag through RealtimeRecorder.set_system_speaking (recorder.py:221-229)
\* and hands the welcome audio to AudioPlayer._play_sync, which clears the
\* stop event (player.py:115)
PlayWelcomeBegin ==
    /\ is_recording
    /\ welcome = "idle"
    /\ welcome' = "playing"
    /\ is_system_speaking' = TRUE
    /\ stop_event' = FALSE
    /\ UNCHANGED <<now, vadVars, vadObs, audio_queue, current_utterance,
                   pre_speech_buffer, is_recording, stream_active, n_captured,
                   proc, scn, recObs, detVars, detObs,
                   clsVars, plVars, local, stopped_at>>

PlayWelcomeEnd_KeepsFlag ==
    /\ welcome = "playing"
    /\ welcome' = "done"
    /\ UNCHANGED <<now, vadVars, vadObs, audio_queue, current_utterance,
                   pre_speech_buffer, is_recording, stream_active, n_captured,
                   is_system_speaking, proc, stop_event, scn, recObs, detVars,
                   detObs, clsVars, plVars, local, stopped_at>>

\* LiveTalker._play_welcome_message after play_bytes has returned (played to
\* the end, or stopped by an interruption), talker.py:372-373
PlayWelcomeEnd ==
    /\ welcome = "playing"
    /\ welcome' = "done"
    /\ is_system_speaking' = FALSE
    /\ UNCHANGED <<now, vadVars, vadObs, audio_queue, current_utterance,
                   pre_speech_buffer, is_recording, stream_active, n_captured,
                   proc, stop_event, scn, recObs, detVars, detObs,
                   clsVars, plVars, local, stopped_at>>

\* LiveTalker._play_welcome_message up to the call of play_bytes,
\* talker.py:345-368: the controller thread sets the flag
WelcomeSetFlag ==
    /\ is_recording
    /\ welcome = "idle"
    /\ welcome' = "flagged"
    /\ is_system_speaking' = TRUE
    /\ UNCHANGED <<now, vadVars, vadObs, audio_queue, current_utterance,
                   pre_speech_buffer, is_recording, stream_active, n_captured,
                   proc, stop_event, scn, recObs, detVars, detObs, clsVars,
                   plVars, local, stopped_at>>

\* the controller thread enters AudioPlayer._play_sync through play_bytes
\* (talker.py:370, player.py:78-79) and clears the stop event,
\* player.py:104-133
PlaySyncEnter ==
    /\ welcome = "flagged"
    /\ welcome' = "playing"
    /\ stop_event' = FALSE
    /\ written' = 0
    /\ UNCHANGED <<now, vadVars, vadObs, audio_queue, current_utterance,
                   pre_speech_buffer, is_recording, is_system_speaking,
                   stream_active, n_captured, proc, scn, recObs, detVars,
                   detObs, clsVars, late_written, player_queue, play_thread,
                   n_buffers, played, local, stopped_at>>

\* one iteration of the write loop of _play_sync, player.py:135-145: the
\* stop event is tested, then one chunk of the audio is written.  The
\* observer counts the chunks written after on_interrupt has called
\* AudioPlayer.stop for this playback.
PlaySyncWrite ==
    /\ welcome = "playing"
    /\ ~stop_event
    /\ written < MaxAudio
    /\ written' = written + 1
    /\ late_written' = IF n_interrupts > 0 THEN late_written + 1 ELSE late_written
    /\ UNCHANGED <<now, vadVars, vadObs, recVars, recObs, detVars, detObs,
                   clsVars, player_queue, play_thread, n_buffers, played,
                   local, stopped_at>>

\* _play_sync leaves the write loop, on the stop event or at the end of the
\* audio, and returns (player.py:136-138, 147-169); the controller clears
\* the flag (talker.py:372-373)
PlaySyncReturn ==
    /\ stop_event \/ written = MaxAudio
    /\ PlayWelcomeEnd

\* a processing thread calls LiveTalker._on_utterance_complete with an
\* utterance (recorder.py:203-206) and executes the test of is_processing,
\* talker.py:236-238: the call returns at once when a pipeline is in
\* progress, and otherwise goes on to line 240
CallbackEnter(t) ==
    /\ proc[t] = "loop"
    /\ is_recording
    /\ n_utterances < MaxCalls
    /\ n_utterances' = n_utterances + 1
    /\ proc' = IF is_processing THEN proc ELSE [proc EXCEPT ![t] = "checked"]
    /\ UNCHANGED <<now, vadVars, vadObs, audio_queue, current_utterance,
                   pre_speech_buffer, is_recording, is_system_speaking,
                   stream_active, n_captured, welcome, stop_event, scn,
                   rec_step, loud_run, preroll_hist, onset_prec, utt_emitted,
                   n_interrupts, played_over, detVars, detObs, clsVars,
                   plVars, local, stopped_at>>

\* the thread that passed the test sets is_processing and runs the
\* pipeline up to the playback of the reply, talker.py:240-319
PipelineBegin(t) ==
    /\ proc[t] = "checked"
    /\ proc' = [proc EXCEPT ![t] = "reply"]
    /\ is_system_speaking' = TRUE
    /\ stop_event' = FALSE
    /\ UNCHANGED <<now, vadVars, vadObs, audio_queue, current_utterance,
                   pre_speech_buffer, is_recording, stream_active, n_captured,
                   welcome, scn, recObs, detVars, detObs, clsVars, plVars,
                   local, stopped_at>>

\* no thread is handling a chunk
NoLocal == [chunk |-> 0,
            state |-> [speech_started |-> FALSE, speech_ended |-> FALSE,
                       ret_is_speaking |-> FALSE]]

\* the first half of an iteration of the loop of _process_audio, with the
\* flag clear: the chunk is dequeued and classified and the tracker updated,
\* recorder.py:151-172; the thread holds the chunk and the returned state
ChunkBegin(t) ==
    /\ proc[t] = "loop"
    /\ is_recording
    /\ audio_queue # <<>>
    /\ ~is_system_speaking
    /\ LET chunk == Head(audio_queue)
           r     == update_state(detect(chunk), now, Tracker)
       IN /\ audio_queue' = Tail(audio_queue)
          /\ TrackerStep(detect(chunk))
          /\ local' = [chunk |-> chunk.id,
                       state |-> [speech_started  |-> r.speech_started,
                                  speech_ended    |-> r.speech_ended,
                                  ret_is_speaking |-> r.ret_is_speaking]]
    /\ proc' = [proc EXCEPT ![t] = "mid"]
    /\ UNCHANGED <<now, pos_run, neg_run, current_utterance,
                   pre_speech_buffer, is_recording, is_system_speaking,
                   stream_active, n_captured, welcome, stop_event, scn,
                   recObs, detVars, detObs, clsVars, plVars, stopped_at>>

\* the second half, recorder.py:174-212: pre-roll, collection, hand-off to
\* a consumer that returns at once, reset of the buffers
ChunkFinish(t) ==
    /\ proc[t] = "mid"
    /\ LET pre1  == MaintainPreRoll(pre_speech_buffer, local.chunk)
           col   == Collect(local.state, current_utterance, pre1, local.chunk)
           emits == EmitsUtterance(local.state, col.utt)
           after == ResetAfterEmit(emits, col)
       IN /\ current_utterance' = after.utt
          /\ pre_speech_buffer' = after.pre
          /\ utt_emitted' = IF emits THEN col.utt ELSE utt_emitted
          /\ n_utterances' = n_utterances + (IF emits THEN 1 ELSE 0)
    /\ proc' = [proc EXCEPT ![t] = "loop"]
    /\ local' = NoLocal
    /\ UNCHANGED <<now, vadVars, vadObs, audio_queue, is_recording,
                   is_system_speaking, stream_active, n_captured, welcome,
                   stop_event, scn, rec_step, loud_run, preroll_hist,
                   onset_prec, n_interrupts, played_over, detVars, detObs,
                   clsVars, plVars, stopped_at>>

\* TalkerThread.interrupt, talker_thread.py:133-136, called from the GUI
\* thread: it runs LiveTalker._on_interrupt (talker.py:384-401), which
\* stops the player, clears the flag and calls clear_buffer
GuiInterrupt ==
    /\ n_interrupts < MaxGuiInterrupts
    /\ n_interrupts' = n_interrupts + 1
    /\ stop_event' = TRUE
    /\ is_system_speaking' = FALSE
    /\ clear_buffer
    /\ preroll_hist' = <<>>
    /\ UNCHANGED <<now, vad_ret, pos_run, neg_run, n_started, n_ended,
                   audio_queue, is_recording, stream_active, n_captured,
                   welcome, proc, scn, rec_step, loud_run, onset_prec,
                   utt_emitted, n_utterances, played_over, detVars, detObs,
                   clsVars, plVars, local, stopped_at>>

\* AudioPlayer.__init__, player.py:39-41: no worker thread yet
NoWorker == [at |-> "none", buf |-> 0]

\* the playback worker after AudioPlayer._play_async has started it
NewWorker == [at |-> "get", buf |-> 0]

\* the worker thread is alive, as Thread.is_alive() reports it
is_alive == play_thread.at \notin {"none", "dead"}

\* AudioPlayer.play_bytes(data, blocking=False), player.py:78-81, into
\* _play_async, player.py:179-189: the buffer is queued, and a worker is
\* started (after the stop event is cleared) unless one is alive
PlayAsync ==
    /\ n_buffers < MaxBuffers
    /\ n_buffers' = n_buffers + 1
    /\ player_queue' = Append(player_queue, n_buffers + 1)
    /\ IF is_alive
       THEN UNCHANGED <<stop_event, play_thread>>
       ELSE /\ stop_event' = FALSE
            /\ play_thread' = NewWorker
    /\ UNCHANGED <<now, vadVars, vadObs, audio_queue, current_utterance,
                   pre_speech_buffer, is_recording, is_system_speaking,
                   stream_active, n_captured, welcome, proc, scn, recObs,
                   detVars, detObs, clsVars, written, late_written, played,
                   local, stopped_at>>

\* the rest of the state, which the worker's steps leave alone
WorkerFrame ==
    UNCHANGED <<now, vadVars, vadObs, recVars, recObs, detVars, detObs,
                clsVars, written, late_written, n_buffers, local,
                stopped_at>>

\* AudioPlayer._playback_worker at the head of its loop, player.py:209-212:
\* it leaves the loop when the stop event is set, takes the next buffer, or
\* sees the dequeue time out
WorkerGet ==
    /\ play_thread.at = "get"
    /\ IF stop_event
       THEN /\ play_thread' = [at |-> "exiting", buf |-> 0]
            /\ UNCHANGED <<player_queue, played>>
       ELSE IF player_queue # <<>>
            THEN /\ play_thread' = [at |-> "writing", buf |-> Head(player_queue)]
                 /\ player_queue' = Tail(player_queue)
                 /\ played' = played \cup {Head(player_queue)}
            ELSE /\ play_thread' = [at |-> "timedout", buf |-> 0]
                 /\ UNCHANGED <<player_queue, played>>
    /\ WorkerFrame

\* the handler of queue.Empty, player.py:224-227: the worker leaves the
\* loop when the queue is still empty and goes round it otherwise
WorkerTimedOut ==
    /\ play_thread.at = "timedout"
    /\ play_thread' = [at |-> IF player_queue = <<>> THEN "exiting" ELSE "get",
                       buf |-> 0]
    /\ UNCHANGED <<player_queue, played>>
    /\ WorkerFrame

\* the worker writes the buffer to the stream, to its end or until the stop
\* event is set, player.py:215-222
WorkerWrite ==
    /\ play_thread.at = "writing"
    /\ play_thread' = [at |-> "get", buf |-> 0]
    /\ UNCHANGED <<player_queue, played>>
    /\ WorkerFrame

\* the worker, out of its loop, closes the stream and ends,
\* player.py:229-233
WorkerExit ==
    /\ play_thread.at = "exiting"
    /\ play_thread' = [at |-> "dead", buf |-> 0]
    /\ UNCHANGED <<player_queue, played>>
    /\ WorkerFrame

\* AudioPlayer.stop, player.py:239-256: the stop event is set, the queue is
\* emptied and the worker is joined for at most 1 s.  A worker that polls
\* the event ends within the join; one held inside stream.write may outlive
\* it (joined = FALSE).
PlayerStop(joined) ==
    /\ ~joined => play_thread.at = "writing"
    /\ stop_event' = TRUE
    /\ player_queue' = <<>>
    /\ play_thread' = IF is_alive /\ joined
                      THEN [at |-> "dead", buf |-> 0] ELSE play_thread
    /\ UNCHANGED <<now, vadVars, vadObs, audio_queue, current_utterance,
                   pre_speech_buffer, is_recording, is_system_speaking,
                   stream_active, n_captured, welcome, proc, scn, recObs,
                   detVars, detObs, clsVars, written, late_written,
                   n_buffers, played, local, stopped_at>>

\* the recorder, the tracker, the detector and the player after construction
InitEngine ==
    /\ now = 0
    /\ stopped_at = 0
    /\ written = 0
    /\ late_written = 0
    /\ player_queue = <<>>
    /\ play_thread = NoWorker
    /\ n_buffers = 0
    /\ played = {}
    /\ local = NoLocal
    /\ is_speaking = FALSE
    /\ speech_start_time = NoTime
    /\ silence_start_time = NoTime
    /\ vad_ret = NoCall
    /\ pos_run = NoRun
    /\ neg_run = NoRun
    /\ n_started = 0
    /\ n_ended = 0
    /\ audio_queue = <<>>
    /\ current_utterance = <<>>
    /\ pre_speech_buffer = <<>>
    /\ is_recording = FALSE
    /\ is_system_speaking = FALSE
    /\ stream_active = FALSE
    /\ welcome = "idle"
    /\ n_captured = 0
    /\ proc = [t \in Threads |-> "none"]
    /\ stop_event = FALSE
    /\ scn = [lead |-> 0, pos |-> 0]
    /\ segment = "none"
    /\ played_over = {}
    /\ rec_step = NoStep
    /\ loud_run = NoTime
    /\ preroll_hist = <<>>
    /\ onset_prec = <<>>
    /\ utt_emitted = <<>>
    /\ n_utterances = 0
    /\ n_interrupts = 0
    /\ det_is_system_speaking = FALSE
    /\ interrupt_start_time = NoTime
    /\ det_ret = NoDetCall
    /\ det_run = NoDetRun
    /\ det_cleared_at = NoTime

\* VADDetector.__init__ with the method m configured, vad.py:27-63 and
\* _init_vad, vad.py:78-111; loads tells whether the model could be loaded
InitClassifier(m, loads) ==
    /\ method = init_vad(m, loads).method
    /\ has_model = init_vad(m, loads).has_model
    /\ detect_ret = NoDetect
    /\ model_failed = FALSE

\* the engine as LiveTalker builds it, with the default method of
\* VADConfig (config.py:69) and its model loaded
Init == InitEngine /\ InitClassifier("silero", TRUE)

\* the engine with any method configured, its model loaded or not
InitAnyClassifier ==
    /\ InitEngine
    /\ \E m \in Methods, loads \in BOOLEAN : InitClassifier(m, loads)

\* the tracker alone, driven by an arbitrary sequence of update_state calls
NextVAD ==
    \/ Tick(ClockStep)
    \/ \E h \in BOOLEAN : UpdateStateCall(h)

SpecVAD == Init /\ [][NextVAD]_vars

\* the interruption detector alone, driven by arbitrary calls
NextDet ==
    \/ Tick(ClockStep)
    \/ \E b \in BOOLEAN : DetSetSystemSpeaking(b)
    \/ \E h \in BOOLEAN : CheckInterruption(h)

SpecDet == Init /\ [][NextDet]_vars

\* the recorder: capture callback, processing loop and the controller's flag
Next ==
    \/ Start
    \/ \E loud \in BOOLEAN : AudioCallback(loud)
    \/ \E t \in Threads, outcome \in Outcomes : ProcessChunk(t, outcome)
    \/ \E t \in Threads : ReplyEnd(t)
    \/ PlayWelcomeBegin
    \/ PlayWelcomeEnd

Spec == Init /\ [][Next]_vars

\* the recorder fed the scripted stream, each chunk processed before the
\* next one is captured, with a consumer that plays nothing
NextScenario ==
    \/ Start
    \/ \E loud \in BOOLEAN : audio_queue = <<>> /\ ScenarioCallback(loud)
    \/ \E t \in Threads, outcome \in Outcomes \ {"played"} :
           ProcessChunk(t, outcome)

SpecScenario == Init /\ [][NextScenario]_vars

\* the recorder fed the scripted stream while LiveTalker plays the welcome
\* message and the replies
NextOverlap ==
    \/ Start
    \/ \E loud \in BOOLEAN : ScenarioCallback(loud)
    \/ \E t \in Threads, outcome \in Outcomes : ProcessChunk(t, outcome)
    \/ \E t \in Threads : ReplyEnd(t)
    \/ PlayWelcomeBegin
    \/ PlayWelcomeEnd

SpecOverlap == Init /\ [][NextOverlap]_vars

\* the recorder stopped and started again while it runs
NextLife ==
    \/ Start
    \/ Stop
    \/ \E loud \in BOOLEAN : AudioCallback(loud)
    \/ \E t \in Threads, outcome \in Outcomes : ProcessChunk(t, outcome)
    \/ \E t \in Threads : ReplyEnd(t)

SpecLife == Init /\ [][NextLife]_vars

\* the recorder fed the scripted stream, with callbacks that may raise
NextFail ==
    \/ Start
    \/ \E loud \in BOOLEAN : ScenarioCallback(loud)
    \/ \E t \in Threads, outcome \in Outcomes \cup InterruptOutcomes :
           ProcessChunk(t, outcome)
    \/ \E t \in Threads : ReplyEnd(t)
    \/ PlayWelcomeBegin
    \/ PlayWelcomeEnd

SpecFail == Init /\ [][NextFail]_vars

\* the welcome playback in the controller thread, chunk by chunk, against
\* the recorder fed the scripted stream; no reply is played
NextAbort ==
    \/ Start
    \/ \E loud \in BOOLEAN : ScenarioCallback(loud)
    \/ \E t \in Threads : ProcessChunk(t, "quiet")
    \/ WelcomeSetFlag
    \/ PlaySyncEnter
    \/ PlaySyncWrite
    \/ PlaySyncReturn

SpecAbort == Init /\ [][NextAbort]_vars

\* the player alone: clients call play_bytes(blocking=False) and stop()
\* while the worker runs
NextPlayer ==
    \/ PlayAsync
    \/ WorkerGet
    \/ WorkerTimedOut
    \/ WorkerWrite
    \/ WorkerExit
    \/ \E joined \in BOOLEAN : PlayerStop(joined)

SpecPlayer == Init /\ [][NextPlayer]_vars

\* LiveTalker._on_utterance_complete called by the processing threads that
\* start() and stop() leave alive, the test of is_processing and its
\* assignment being two statements; no thread stays between the two for
\* the length of stop()
NextPipeline ==
    \/ Start
    \/ (\A t \in Threads : proc[t] # "checked") /\ Stop
    \/ \E t \in Threads : CallbackEnter(t)
    \/ \E t \in Threads : PipelineBegin(t)
    \/ \E t \in Threads : ReplyEnd(t)

SpecPipeline == Init /\ [][NextPipeline]_vars

\* the tracker and the interruption detector built on the same VADDetector
\* (vad.py:291-308), each driven by arbitrary calls
NextFrame ==
    \/ now < MaxFrameTime /\ Tick(min_speech_duration)
    \/ \E h \in BOOLEAN : UpdateStateCall(h)
    \/ ResetCall
    \/ \E b \in BOOLEAN : DetSetSystemSpeaking(b)
    \/ \E h \in BOOLEAN : CheckInterruption(h)

SpecFrame == Init /\ [][NextFrame]_vars

\* the loop of _process_audio in two steps per chunk, on the scripted
\* stream, with the GUI thread calling TalkerThread.interrupt
NextGui ==
    \/ proc[1] = "none" /\ Start
    \/ \E loud \in BOOLEAN : ScenarioCallback(loud)
    \/ \E t \in Threads : ChunkBegin(t)
    \/ \E t \in Threads : ChunkFinish(t)
    \/ GuiInterrupt

SpecGui == Init /\ [][NextGui]_vars

\* the recorder fed the scripted stream, started once and stopped.  A
\* callback the processing thread is in returns: play_bytes ends when the
\* audio has been played (player.py:135-167).
NextShutdown ==
    \/ proc[1] = "none" /\ Start
    \/ Stop
    \/ \E loud \in BOOLEAN : ScenarioCallback(loud)
    \/ \E t \in Threads, outcome \in Outcomes : ProcessChunk(t, outcome)
    \/ \E t \in Threads : ReplyEnd(t)

SpecShutdown ==
    /\ Init
    /\ [][NextShutdown]_vars
    /\ \A t \in Threads : WF_vars(ReplyEnd(t))

\* the tracker driven by arbitrary calls of update_state, reset and
\* clear_buffer
NextReset ==
    \/ Tick(ClockStep)
    \/ \E h \in BOOLEAN : UpdateStateCall(h)
    \/ ResetCall
    \/ ClearBufferCall

SpecReset == Init /\ [][NextReset]_vars

\* the classifier and the tracker, for any configured method, driven by
\* arbitrary chunks
NextClassifier ==
    \/ Tick(min_speech_duration)
    \/ \E data \in Datas : ClassifyCall(data)

SpecClassifier == InitAnyClassifier /\ [][NextClassifier]_vars

\* ------------------------------------------------------------------------
\* Properties of the tracker (checked under SpecVAD)
\* ------------------------------------------------------------------------
\* C1: speech_started is reported only by a positive call made at least
\* min_speech_duration after the first positive call of the current
\* uninterrupted run of positive calls; a run of positive calls that began
\* with the tracker Silent, lasted less than min_speech_duration and was
\* ended by a negative call has reported no speech_started and leaves the
\* tracker Silent.
C1_StartDebounce ==
    /\ vad_ret.speech_started =>
          /\ vad_ret.has_speech
          /\ pos_run.state = "open"
          /\ vad_ret.at - pos_run.first >= min_speech_duration
    /\ ( /\ pos_run.state = "closed"
         /\ pos_run.from
         /\ pos_run.last - pos_run.first < min_speech_duration )
          => ~pos_run.fired /\ ~is_speaking

\* a debounced start has been reported, after an earlier short run of
\* positives was cut by a negative
C1_Witness ==
    /\ vad_ret.speech_started
    /\ vad_ret.at - pos_run.first >= min_speech_duration
    /\ neg_run.state = "closed"
    /\ pos_run.first > 0

\* C2: speech_ended is reported only by a negative call made at least
\* min_silence_duration after the first negative call of the current
\* uninterrupted run of negative calls; every positive call leaves the
\* silence timer at none; a run of negative calls that began with the tracker
\* Speaking, lasted less than min_silence_duration and was ended by a positive
\* call has reported no speech_ended and leaves the tracker Speaking.
C2_SilenceTimerReset ==
    /\ vad_ret.speech_ended =>
          /\ ~vad_ret.has_speech
          /\ neg_run.state = "open"
          /\ vad_ret.at - neg_run.first >= min_silence_duration
    /\ (vad_ret.called /\ vad_ret.has_speech) => silence_start_time = NoTime
    /\ ( /\ neg_run.state = "closed"
         /\ neg_run.from
         /\ neg_run.last - neg_run.first < min_silence_duration )
          => ~neg_run.fired /\ is_speaking

\* a short silence inside a confirmed speech segment was cut by a positive,
\* and time has since passed beyond min_silence_duration
C2_Witness ==
    /\ is_speaking
    /\ neg_run.state = "closed"
    /\ neg_run.from
    /\ neg_run.last > neg_run.first
    /\ now - neg_run.first >= min_silence_duration
    /\ n_ended = 0

\* C3: over any sequence of update_state calls the reports alternate,
\* starting with speech_started: the number of speech_started reported is
\* the number of speech_ended reported, or one more.
C3_StartEndAlternate ==
    /\ n_ended <= n_started
    /\ n_started <= n_ended + 1

\* a second speech segment has started after the first one ended
C3_Witness == n_started = 2 /\ n_ended = 1 /\ is_speaking

\* ------------------------------------------------------------------------
\* Properties of the recorder (checked under Spec)
\* ------------------------------------------------------------------------
\* the last m elements of a sequence
Suffix(q, m) == SubSeq(q, Len(q) - m + 1, Len(q))

\* no element occurs twice in a sequence
NoDuplicates(q) == \A i, j \in DOMAIN q : i # j => q[i] # q[j]

\* C4: the processing loop has called on_utterance_complete at most once per
\* speech_started/speech_ended pair reported by the tracker: never more
\* often than speech_ended was reported.
C4_OneUtterancePerPair ==
    /\ n_utterances <= n_ended
    /\ n_ended <= n_started
    /\ rec_step.emitted => vad_ret.speech_ended /\ vad_ret.at = rec_step.at

\* an utterance has been handed over on the step that reported speech_ended
C4_Witness ==
    /\ rec_step.emitted
    /\ n_utterances = 1
    /\ n_ended = 1
    /\ Len(utt_emitted) > 1

\* C5: the utterance being assembled, and the utterance just emitted, begin
\* with the N chunks that immediately preceded the onset chunk, oldest first
\* (all of them when fewer than N preceded it), N being
\* pre_speech_buffer_size.
C5_PreRollSplice ==
    LET m == Min(pre_speech_buffer_size, Len(onset_prec))
    IN /\ current_utterance # <<>> =>
            SubSeq(current_utterance, 1, m) = Suffix(onset_prec, m)
       /\ rec_step.emitted =>
            SubSeq(utt_emitted, 1, m) = Suffix(onset_prec, m)

\* C6: no captured chunk occurs twice in an emitted utterance.
C6_NoDoubleCount == NoDuplicates(utt_emitted)

\* C7: the pre-roll buffer holds at most pre_speech_buffer_size chunks, and
\* it is the most recent of the chunks appended to it since it was last
\* cleared, in arrival order (so what a full buffer loses is its oldest).
C7_PreRollBounded ==
    /\ Len(pre_speech_buffer) <= pre_speech_buffer_size
    /\ pre_speech_buffer =
          Suffix(preroll_hist, Min(pre_speech_buffer_size, Len(preroll_hist)))

\* a chunk was appended to a full pre-roll buffer
C7_Witness ==
    /\ Len(preroll_hist) > pre_speech_buffer_size
    /\ Len(pre_speech_buffer) = pre_speech_buffer_size
    /\ Head(pre_speech_buffer) = 2

\* C8: on_interrupt is called only when the chunks dequeued have been
\* classified as speech without a break for at least interruption_threshold.
C8_InterruptDebounced ==
    rec_step.interrupted =>
        /\ loud_run # NoTime
        /\ rec_step.at - loud_run >= interruption_threshold

\* ------------------------------------------------------------------------
\* Properties of the interruption detector (checked under SpecDet)
\* ------------------------------------------------------------------------
\* C9: a run of positive checks made while the flag stays true, once it has
\* lasted interruption_threshold, has called on_interrupt exactly once,
\* however long it goes on.
C9_InterruptOncePerRun ==
    ( /\ det_run.first # NoTime
      /\ det_run.last - det_run.first >= interruption_threshold )
        => det_run.fires = 1

\* C10: on_interrupt is called only by a check made while the flag is true;
\* while the flag is false no interruption timer is pending; and a pending
\* timer, or the timer a reported interruption was measured from, never
\* predates the last set_system_speaking(False) made before it was used.
C10_OnlyWhileSystemSpeaking ==
    /\ det_ret.fired => det_ret.flag /\ det_ret.has_speech
    /\ ~det_is_system_speaking => interrupt_start_time = NoTime
    /\ interrupt_start_time # NoTime => interrupt_start_time >= det_cleared_at
    /\ det_ret.fired =>
          /\ det_ret.since >= det_ret.cleared
          /\ det_ret.at - det_ret.since >= interruption_threshold

\* an interruption was reported after the flag had been cleared, with speech
\* pending, and set again
C10_Witness ==
    /\ det_ret.fired
    /\ det_ret.cleared > 0
    /\ det_ret.since >= det_ret.cleared

\* ------------------------------------------------------------------------
\* Properties of the interruption path of the recorder (checked under Spec)
\* ------------------------------------------------------------------------
\* C11: when the handling of an interruption completes, the player has been
\* signalled to stop, system_speaking is false, the tracker is Silent with
\* both timers at none, and the utterance and pre-roll buffers are empty.
C11_InterruptResets ==
    [][ n_interrupts' = n_interrupts + 1 =>
          /\ stop_event'
          /\ ~is_system_speaking'
          /\ ~is_speaking'
          /\ speech_start_time' = NoTime
          /\ silence_start_time' = NoTime
          /\ current_utterance' = <<>>
          /\ pre_speech_buffer' = <<>> ]_vars

\* an interruption was handled while the tracker was Speaking and an
\* utterance was being assembled
C11_Witness ==
    /\ rec_step.interrupted
    /\ n_interrupts = 1
    /\ segment = "dropped"
    /\ stop_event
    /\ current_utterance = <<>>

\* membership of a chunk in a buffer
InSeq(c, q) == \E i \in DOMAIN q : q[i] = c

\* C12: a chunk the loop handled while system_speaking was true, speech or
\* not, was not given to the tracker's update_state and is in neither the
\* pre-roll buffer nor the utterance buffer.
C12_SuspendedWhileSystemSpeaking ==
    (rec_step.kind # "none" /\ rec_step.flag) =>
        /\ rec_step.kind # "normal"
        /\ ~InSeq(rec_step.chunk, pre_speech_buffer)
        /\ ~InSeq(rec_step.chunk, current_utterance)

\* C13: no chunk enqueued while a playback (welcome message or reply) was
\* in progress is part of an utterance handed to on_utterance_complete.
C13_NoOverlapRecorded ==
    \A c \in played_over : ~InSeq(c, utt_emitted)

\* the queue holds a run of loud chunks whose first and last were captured
\* at least interruption_threshold apart
SustainedLoudBacklog ==
    \E i, j \in DOMAIN audio_queue :
        /\ i <= j
        /\ (j - i) * ChunkMs >= interruption_threshold
        /\ \A k \in i .. j : audio_queue[k].loud

\* C14: a reply playback never completes naturally (without the player having
\* been told to stop) while a sustained run of speech captured during it is
\* still waiting in the queue, unseen by the loop.
C14_MonitorDuringPlayback ==
    [][ ( /\ \E t \in Threads : proc[t] = "reply" /\ proc'[t] # "reply"
          /\ ~stop_event )
        => ~SustainedLoudBacklog ]_vars

\* ------------------------------------------------------------------------
\* The scripted stream (checked under SpecScenario)
\* ------------------------------------------------------------------------
\* every chunk of the scripted stream has been captured and processed
ScenarioDone ==
    /\ scn.pos = Cardinality(ScenarioChunks)
    /\ audio_queue = <<>>

C16_InterruptOnFifthChunk ==
    rec_step.interrupted =>
        /\ loud_run # NoTime
        /\ rec_step.at - loud_run = 4 * ChunkMs
        /\ stop_event

\* ------------------------------------------------------------------------
\* The tracker with reset (checked under SpecReset)
\* ------------------------------------------------------------------------
\* C17, as stated: after any sequence of update_state, reset and
\* clear_buffer calls, is_speaking is true exactly when a speech_started has
\* been reported and no speech_ended has been reported after it.
C17_SpeakingIffStartedNotEnded ==
    is_speaking <=> segment \in {"open", "dropped"}

\* C17, as the code behaves: is_speaking is true exactly when a
\* speech_started has been reported and neither a speech_ended nor a reset
\* (reset() itself or through clear_buffer()) has followed it.
C17_SpeakingIffStartedNotEndedNorReset ==
    is_speaking <=> segment = "open"

\* a segment was dropped by a reset, and a second speech_started has been
\* reported with no speech_ended in between
C17_Witness ==
    /\ is_speaking
    /\ n_started = 2
    /\ n_ended = 0
    /\ segment = "open"

\* ------------------------------------------------------------------------
\* The utterance buffer (checked under Spec)
\* ------------------------------------------------------------------------
\* C18: whenever the handling of a chunk is complete and the tracker is
\* Silent, the utterance buffer is empty; and the utterance buffer grows
\* only in a step after which the tracker is Speaking.
C18_AccumulatesOnlyWhileSpeaking ==
    [][ /\ (~is_processing' /\ ~is_speaking') => current_utterance' = <<>>
        /\ Len(current_utterance') > Len(current_utterance) => is_speaking'
      ]_vars

\* after an utterance was emitted, chunks were processed with the tracker
\* Silent: they are in the pre-roll buffer and not in the utterance buffer
C18_Witness ==
    /\ n_utterances = 1
    /\ ~is_speaking
    /\ ~is_processing
    /\ current_utterance = <<>>
    /\ Len(pre_speech_buffer) >= 2

\* C19: in a step where speech_ended is reported, on_utterance_complete is
\* called exactly if the utterance buffer is not empty, with the buffered
\* chunks in their order; when the handling of the chunk is complete, also
\* after a callback that raised, both buffers are empty.
C19_EmitOnEnd ==
    [][ /\ n_ended' = n_ended + 1 =>
              /\ n_utterances' = n_utterances + 1 <=> current_utterance # <<>>
              /\ n_utterances' = n_utterances + 1 =>
                     utt_emitted' = current_utterance
        /\ (rec_step'.ended /\ ~is_processing') =>
              /\ current_utterance' = <<>>
              /\ pre_speech_buffer' = <<>>
      ]_vars

\* an utterance was handed to a callback that raised, and the handling of
\* the chunk is complete
C19_Witness ==
    /\ rec_step.ended
    /\ rec_step.emitted
    /\ rec_step.cb = "raised"
    /\ Len(utt_emitted) > 1
    /\ pre_speech_buffer = <<>>

\* ------------------------------------------------------------------------
\* The recorder stopped and restarted (checked under SpecLife)
\* ------------------------------------------------------------------------
\* C20: a chunk is dequeued only when the handling of every chunk dequeued
\* before it is complete, and chunks are dequeued in the order in which they
\* were enqueued, however the capture callback, start() and stop() interleave.
C20_SerialProcessing ==
    [][ Len(audio_queue') < Len(audio_queue) =>
          /\ ~is_processing
          /\ rec_step'.chunk = Head(audio_queue).id
          /\ rec_step'.chunk > rec_step.chunk ]_vars

\* ------------------------------------------------------------------------
\* The queue between the capture callback and the loop (checked under Spec)
\* ------------------------------------------------------------------------
\* C21: the number of chunks enqueued and not yet processed never exceeds a
\* fixed capacity: some capacity, smaller than the number of chunks the
\* capture driver delivers while the processing thread is blocked in a
\* callback, bounds the queue in every state.
C21_QueueBounded ==
    \E capacity \in 1 .. MaxBlockedQueue - 1 :
        Len(audio_queue) <= capacity

\* ------------------------------------------------------------------------
\* Callbacks that raise (checked under SpecFail)
\* ------------------------------------------------------------------------
\* C22: after an iteration in which on_utterance_complete or on_interrupt
\* raised, the thread that ran it is still in the processing loop, and the
\* recorder is still recording.
C22_LoopSurvivesCallback ==
    [][ ( /\ Len(audio_queue') < Len(audio_queue)
          /\ rec_step'.cb \in {"raised", "interrupt_raised"} )
        => /\ proc'[rec_step'.thread] = "loop"
           /\ is_recording' ]_vars

\* on_interrupt raised on one chunk, and the loop went on to process the
\* next chunk, on which on_interrupt was called again and returned
C22_Witness ==
    /\ n_interrupts = 2
    /\ rec_step.kind = "interrupt"
    /\ rec_step.cb = "none"
    /\ ~is_system_speaking

\* C23: after an iteration in which a callback raised, the recorder's own
\* state is what it is after a callback that returned: the flag is false
\* after on_interrupt, and both buffers are empty after
\* on_utterance_complete.
C23_StateUnaffectedByRaise ==
    [][ Len(audio_queue') < Len(audio_queue) =>
          /\ rec_step'.cb = "interrupt_raised" => ~is_system_speaking'
          /\ rec_step'.cb = "raised" =>
                current_utterance' = <<>> /\ pre_speech_buffer' = <<>> ]_vars

\* ------------------------------------------------------------------------
\* Shutdown (checked under SpecShutdown)
\* ------------------------------------------------------------------------
\* no processing thread is running
NoThreadAlive == \A t \in Threads : proc[t] \in {"none", "exited"}

C25_NothingSurvivesStop ==
    (rec_step.emitted /\ is_recording) =>
        \A i \in DOMAIN utt_emitted : utt_emitted[i] > rec_step.boundary

\* ------------------------------------------------------------------------
\* Classifier (checked under SpecClassifier)
\* ------------------------------------------------------------------------
\* C26: after a failure of the model (at initialization or in an inference)
\* no later detect call invokes the model, and the call in which the
\* inference failed returns the energy classifier's verdict.
C26_FallbackPermanent ==
    detect_ret.called =>
        /\ detect_ret.failed_before => ~detect_ret.invoked
        /\ ~has_model => ~detect_ret.invoked
        /\ detect_ret.failed => detect_ret.result = detect_ret.energy

\* C27: detect returns false for an empty chunk under every method, without
\* consulting a classifier, and the tracker is then in the state a negative
\* decision leaves it in.
C27_EmptyChunkIsNegative ==
    (detect_ret.called /\ detect_ret.empty) =>
        /\ ~detect_ret.result
        /\ ~detect_ret.invoked
        /\ <<is_speaking, speech_start_time, silence_start_time>>
               = detect_ret.as_negative

\* an empty chunk arrived while the tracker was Speaking and started the
\* silence timer
C27_Witness ==
    /\ detect_ret.called
    /\ detect_ret.empty
    /\ detect_ret.energy
    /\ is_speaking
    /\ silence_start_time = now

\* ------------------------------------------------------------------------
\* reset() (checked under SpecReset)
\* ------------------------------------------------------------------------
\* C28: from every tracker state, reset() applied twice gives the state
\* reset() applied once gives, which is Silent with both timers none; and
\* a call of reset() puts the tracker in that state.
C28_ResetIdempotent ==
    /\ [](reset(reset(Tracker)) = reset(Tracker))
    /\ [][ResetCall => Tracker' = reset(Tracker)]_vars

\* reset() was called while the tracker was Speaking with the silence timer
\* running or not, and the tracker is in the reset state
C28_Witness ==
    /\ segment = "dropped"
    /\ n_started = 1
    /\ Tracker = reset(Tracker)
    /\ pos_run = NoRun
    /\ neg_run = NoRun
    /\ vad_ret.called

\* ------------------------------------------------------------------------
\* The system_speaking flag (C29 checked under Spec, C30 under SpecFail)
\* ------------------------------------------------------------------------
\* C29: after every step that hands an utterance to on_utterance_complete
\* and after every interruption, the tracker is Silent with both timers
\* none.
C29_ResetAfterHandoff ==
    [][ (n_utterances' > n_utterances \/ n_interrupts' > n_interrupts)
        => Tracker' = reset(Tracker') ]_vars

\* C30: the step that hands audio to the player leaves the flag true, and
\* in every state in which neither the welcome message nor a reply is being
\* played the flag is false.
C30_FlagBracketsPlayback ==
    /\ [](~Playing => ~is_system_speaking)
    /\ [][ /\ (welcome = "idle" /\ welcome' = "playing") => is_system_speaking'
           /\ \A t \in Threads :
                 (proc[t] # "reply" /\ proc'[t] = "reply") => is_system_speaking'
         ]_vars

\* the welcome message was cut by an interruption, a reply was played to
\* its end, and nothing is being played
C30_Witness ==
    /\ welcome = "done"
    /\ n_interrupts >= 1
    /\ n_utterances >= 1
    /\ rec_step.cb = "played"
    /\ ~Playing
    /\ ~is_system_speaking

\* ------------------------------------------------------------------------
\* The blocking playback and its stop signal (checked under SpecAbort)
\* ------------------------------------------------------------------------
\* C31: once on_interrupt has called AudioPlayer.stop() for a playback
\* whose flag was set, no chunk of that playback is written to the output.
C31_StopNeverLost == late_written = 0

\* ------------------------------------------------------------------------
\* The background playback (checked under SpecPlayer)
\* ------------------------------------------------------------------------
\* C37: no buffer is in the player's queue while no worker is running.
C37_NoBufferStranded ==
    player_queue # <<>> => is_alive

\* ------------------------------------------------------------------------
\* One processing thread (checked under SpecLife)
\* ------------------------------------------------------------------------
\* the threads that are inside _process_audio
Running == {t \in Threads : proc[t] \in {"loop", "reply"}}

\* C32: at most one thread is inside _process_audio, whatever start() and
\* stop() calls were made.
C32_OneProcessingThread == Cardinality(Running) <= 1

\* ------------------------------------------------------------------------
\* Ownership of the buffers (checked under SpecGui)
\* ------------------------------------------------------------------------
\* C33: while a processing thread is in the middle of handling a chunk, no
\* step of another thread changes the utterance buffer, the pre-roll
\* buffer or the tracker.
C33_BuffersOwnedByProcessing ==
    [][ (\E t \in Threads : proc[t] = "mid" /\ proc'[t] = "mid")
        => UNCHANGED <<current_utterance, pre_speech_buffer, is_speaking,
                       speech_start_time, silence_start_time>> ]_vars

\* ------------------------------------------------------------------------
\* Collection of the utterance (checked under Spec)
\* ------------------------------------------------------------------------
\* C34: in every iteration that handles a chunk normally: on speech_started
\* the pre-roll buffer as it stands at the splice, then the chunk, are
\* appended to the utterance buffer; on any other chunk that leaves the
\* tracker Speaking (loud, or silent inside the silence debounce) the chunk
\* alone is appended; the chunk on which speech_ended is reported is not
\* appended, and the utterance handed over is the buffer as it was before
\* that chunk.
C34_AppendWhileSpeaking ==
    [][ (Len(audio_queue') < Len(audio_queue) /\ rec_step'.kind = "normal") =>
          LET c == Head(audio_queue).id
              h == Append(preroll_hist, c)
              P == Suffix(h, Min(pre_speech_buffer_size, Len(h)))
          IN /\ vad_ret'.speech_started =>
                    current_utterance' = (current_utterance \o P) \o <<c>>
             /\ (is_speaking' /\ ~vad_ret'.speech_started) =>
                    current_utterance' = Append(current_utterance, c)
             /\ vad_ret'.speech_ended =>
                    /\ rec_step'.emitted
                    /\ utt_emitted' = current_utterance
                    /\ ~InSeq(c, utt_emitted') ]_vars

\* an utterance longer than the shortest one (pre-roll or further chunks
\* beside the five of the onset and the eight of the closing silence) was
\* handed over: it ends with the chunk before the one that ended the speech
C34_Witness ==
    /\ rec_step.emitted
    /\ rec_step.ended
    /\ n_started = 1
    /\ Len(utt_emitted) >= 17
    /\ utt_emitted[Len(utt_emitted)] = rec_step.chunk - 1
    /\ ~InSeq(rec_step.chunk, utt_emitted)

\* ------------------------------------------------------------------------
\* Frame conditions of the tracker and the detector (C35 checked under
\* SpecFrame, C36 under SpecVAD)
\* ------------------------------------------------------------------------
\* the tracker's three fields
TrackerFields == <<is_speaking, speech_start_time, silence_start_time>>

\* the interruption detector's two fields
DetectorFields == <<det_is_system_speaking, interrupt_start_time>>

\* the recorder's buffers, queue and flags
RecorderFields == <<audio_queue, current_utterance, pre_speech_buffer,
                    is_recording, is_system_speaking>>

\* C35: check_interruption and InterruptionDetector.set_system_speaking
\* leave the tracker's fields as they are, and update_state and reset leave
\* the detector's timer and flag as they are.
C35_IndependentState ==
    [][ /\ ( (\E h \in BOOLEAN : CheckInterruption(h))
             \/ (\E b \in BOOLEAN : DetSetSystemSpeaking(b)) )
           => UNCHANGED TrackerFields
        /\ ( (\E h \in BOOLEAN : UpdateStateCall(h)) \/ ResetCall )
           => UNCHANGED DetectorFields ]_vars

\* the detector has just fired while the tracker was Speaking with its
\* silence timer running
C35_Witness ==
    /\ det_ret.fired
    /\ det_ret.at = now
    /\ det_is_system_speaking
    /\ is_speaking
    /\ silence_start_time # NoTime

\* C36: a call of update_state changes nothing of the recorder or of the
\* detector; the is_speaking it returns is the tracker's is_speaking after the
\* call; and it never reports speech_started and speech_ended together.
C36_UpdateStateFrame ==
    /\ [](vad_ret.called => ~(vad_ret.speech_started /\ vad_ret.speech_ended))
    /\ [][ (\E h \in BOOLEAN : UpdateStateCall(h)) =>
             /\ UNCHANGED <<RecorderFields, DetectorFields>>
             /\ vad_ret'.is_speaking = is_speaking' ]_vars

\* update_state has just reported speech_ended, so that the value it
\* returned and the field both changed in the call
C36_Witness ==
    /\ vad_ret.called
    /\ vad_ret.speech_ended
    /\ ~vad_ret.is_speaking
    /\ ~is_speaking
    /\ n_started = 1

\* ------------------------------------------------------------------------
\* One utterance pipeline (checked under SpecPipeline)
\* ------------------------------------------------------------------------
\* the threads that are inside the pipeline of _on_utterance_complete
InPipeline == {t \in Threads : proc[t] = "reply"}

\* C38: at most one utterance pipeline is in progress.
C38_OnePipeline == Cardinality(InPipeline) <= 1

====
